---------------------------- MODULE Spec2Model ----------------------------
(***************************************************************************)
(* A model of main.js of graphql-schema-generator: the lowering of         *)
(* TypeScript type nodes to GraphQL SDL text (generateType,                *)
(* generateMember, the generate*Definition functions), the traversal that  *)
(* collects the SDL text, and the rewrite of the parsed GraphQL document   *)
(* (reposition Query, bind Query and Mutation arguments, prune the *Args   *)
(* definitions) in the readFile callback.                                   *)
(*                                                                         *)
(* JavaScript strings are modelled as sequences of tokens: a token is a   *)
(* run of characters that the model never splits.  The tokens used are     *)
(* prefix-free, so two token sequences are equal exactly when the strings  *)
(* they spell are equal, and the substrings "Query", "Mutation" and "Args"*)
(* occur in a string only as whole tokens.                                 *)
(***************************************************************************)
EXTENDS Integers, Sequences, FiniteSets

VARIABLES
    pc,            \* position of the run (each specification has its own positions)
    parsed,        \* the definitions as parse() returned them (history of the input)
    definitions,   \* the working copy `definitions` of the readFile callback
    updatedAST,    \* <<definitions>> once updatedAST is built, << >> before
    member,        \* the TypeScript member handed to generateMember
    lowered,       \* the JavaScript outcome of the lowering call
    ast,           \* the top-level nodes of the source file, in source order
    visited,       \* how many of them traverse() has visited
    typeDefs,      \* the SDL text collected so far, a token sequence
    mutationArgs,  \* the mutationArgs table, a set of <<name, text>> pairs
    outputFilePath,\* whether -o named an output file
    output,        \* where the schema went: "none", "file", "console"
    error          \* what console.error reported: "none" or the error

lowerVars == <<member, lowered>>
rewriteVars == <<parsed, definitions, updatedAST>>
pipeVars == <<ast, visited, typeDefs, mutationArgs, outputFilePath, output>>
vars == <<pc, error, lowerVars, rewriteVars, pipeVars>>

(***************************************************************************)
(* Bounds of the model.                                                    *)
(***************************************************************************)
MaxDepth == 2      \* nesting depth of generic wrappers in a type shape
MaxDefs == 3       \* number of definitions of a parsed document
MaxNodes == 2      \* number of top-level nodes of a traversed source file

(***************************************************************************)
(* JavaScript values a lowering call can produce: a string, an object (an  *)
(* AST node), undefined, or a thrown TypeError.                            *)
(***************************************************************************)
JsString(s) == [k |-> "string", s |-> s]
JsObject == [k |-> "object", s |-> << >>]
JsUndefined == [k |-> "undefined", s |-> << >>]
JsThrow == [k |-> "throw", s |-> << >>]

\* String(v) of a template literal or of `+` with a string operand.
JsToString(v) ==
    CASE v.k = "string" -> v.s
      [] v.k = "object" -> <<"[object Object]">>
      [] OTHER -> <<"undefined">>

(***************************************************************************)
(* TypeScript type nodes as Babel builds them.  Every node is a record of  *)
(* the same fields; a field a node kind does not have holds its empty      *)
(* value.  typeParameters is absent (tp = FALSE) on a reference written    *)
(* without <...>.                                                          *)
(***************************************************************************)
NoName == [type |-> "none", name |-> << >>]
Identifier(n) == [type |-> "Identifier", name |-> <<n>>]
QualifiedName == [type |-> "TSQualifiedName", name |-> << >>]
NoLiteral == [type |-> "none", value |-> << >>]

Node(t, tn, tp, ps, ot, it, lit) ==
    [type |-> t, typeName |-> tn, tp |-> tp, params |-> ps,
     objectType |-> ot, indexType |-> it, literal |-> lit]

Keyword(t) == Node(t, NoName, FALSE, << >>, << >>, << >>, NoLiteral)
LiteralType(lt, v) ==
    Node("TSLiteralType", NoName, FALSE, << >>, << >>, << >>,
         [type |-> lt, value |-> <<v>>])
BareReference(tn) == Node("TSTypeReference", tn, FALSE, << >>, << >>, << >>, NoLiteral)
Reference(tn, ps) == Node("TSTypeReference", tn, TRUE, ps, << >>, << >>, NoLiteral)
IndexedAccess(ot, it) ==
    Node("TSIndexedAccessType", NoName, FALSE, << >>, <<ot>>, <<it>>, NoLiteral)

\* node.typeName.name: undefined on a qualified name, a TypeError when the
\* node has no typeName at all.
HasTypeName(node) == node.typeName.type # "none"
NameIs(node, n) == node.typeName.type = "Identifier" /\ node.typeName.name = <<n>>
TypeNameName(node) ==
    IF node.typeName.type = "Identifier" THEN JsString(node.typeName.name)
    ELSE JsUndefined

\* '[' + v + ']' of the Array branch; a throw of the operand propagates.
Bracket(v) ==
    IF v.k = "throw" THEN JsThrow
    ELSE JsString(<<"[">> \o JsToString(v) \o <<"]">>)

IsStringLiteral(node) ==
    node.type = "TSLiteralType" /\ node.literal.type = "StringLiteral"

RECURSIVE generateType(_)
generateType(typeAnnotation) ==
    CASE typeAnnotation.type \in {"TSStringKeyword", "TSTypeLiteral"} ->
            JsString(<<"String">>)
      [] typeAnnotation.type = "TSNumberKeyword" -> JsString(<<"Int">>)
      [] typeAnnotation.type = "TSBooleanKeyword" -> JsString(<<"Boolean">>)
      [] typeAnnotation.type = "TSTypeReference" ->
            IF NameIs(typeAnnotation, "Scalars")
            THEN IF /\ typeAnnotation.tp
                    /\ Len(typeAnnotation.params) > 0
                    /\ IsStringLiteral(typeAnnotation.params[1])
                 THEN JsString(typeAnnotation.params[1].literal.value)
                 ELSE JsString(<<"Unknown">>)
            ELSE IF NameIs(typeAnnotation, "Maybe")
            THEN IF ~typeAnnotation.tp THEN JsThrow
                 ELSE IF Len(typeAnnotation.params) = 0 THEN JsString(<<"Unknown">>)
                 ELSE generateType(typeAnnotation.params[1])
            ELSE IF NameIs(typeAnnotation, "Array")
            THEN IF ~typeAnnotation.tp THEN JsThrow
                 ELSE IF Len(typeAnnotation.params) = 0 THEN JsString(<<"Unknown">>)
                 ELSE Bracket(generateType(typeAnnotation.params[1]))
            ELSE TypeNameName(typeAnnotation)
      [] typeAnnotation.type = "TSIndexedAccessType" ->
            LET objectType == typeAnnotation.objectType[1]
                indexType == typeAnnotation.indexType[1]
            IN  IF ~HasTypeName(objectType) THEN JsThrow
                ELSE IF NameIs(objectType, "Scalars")
                THEN IF IsStringLiteral(indexType)
                     THEN JsString(indexType.literal.value)
                     ELSE JsString(<<"Unknown">>)
                ELSE JsObject
      [] typeAnnotation.type = "TSAnyKeyword" -> JsString(<<"String">>)
      [] OTHER -> JsString(<<"Unknown">>)

(***************************************************************************)
(* Members of a type literal.  key is absent (type "none"), an identifier  *)
(* or a string literal (whose .name is undefined); typeAnnotation is a     *)
(* sequence of zero or one type node.                                       *)
(***************************************************************************)
Member(t, key, ta, opt) ==
    [type |-> t, key |-> key, typeAnnotation |-> ta, optional |-> opt]

StringLiteralKey == [type |-> "StringLiteral", name |-> << >>]

KeyName(key) ==
    IF key.type = "Identifier" THEN JsString(key.name) ELSE JsUndefined

generateMember(m) ==
    IF m.type = "TSPropertySignature" /\ m.key.type # "none" /\ Len(m.typeAnnotation) > 0
    THEN LET key == KeyName(m.key)
             type == generateType(m.typeAnnotation[1])
             optional == IF m.optional THEN << >> ELSE <<"!">>
         IN  IF type.k = "throw" THEN JsThrow
             ELSE JsString(<<"  ">> \o JsToString(key) \o <<": ">>
                           \o JsToString(type) \o optional)
    ELSE JsString(<< >>)

(***************************************************************************)
(* The type shapes and members the lowering is exercised on: every         *)
(* keyword, references with and without type arguments, literal types,    *)
(* indexed accesses, and Maybe<T> / Array<T> nested to MaxDepth.           *)
(***************************************************************************)
LeafShapes ==
    {Keyword(t) : t \in {"TSStringKeyword", "TSNumberKeyword", "TSBooleanKeyword",
                         "TSAnyKeyword", "TSTypeLiteral", "TSUnionType"}}
    \cup {BareReference(Identifier(n)) : n \in {"Scalars", "Maybe", "Array", "User"}}
    \cup {BareReference(QualifiedName)}
    \cup {Reference(Identifier(n), << >>) : n \in {"Scalars", "Maybe", "Array"}}
    \cup {Reference(Identifier("Scalars"), <<l>>) :
             l \in {LiteralType("StringLiteral", "DateTime"),
                    LiteralType("NumericLiteral", "1")}}
    \cup {IndexedAccess(o, i) :
             o \in {BareReference(Identifier("Scalars")), BareReference(Identifier("User")),
                    Keyword("TSStringKeyword")},
             i \in {LiteralType("StringLiteral", "DateTime"), Keyword("TSNumberKeyword")}}

RECURSIVE Shapes(_)
Shapes(d) ==
    IF d = 0 THEN LeafShapes
    ELSE LeafShapes \cup {Reference(Identifier(w), <<t>>) :
                             w \in {"Maybe", "Array"}, t \in Shapes(d - 1)}

TypeShapes == Shapes(MaxDepth)

Members ==
    {Member(t, key, ta, opt) :
        t \in {"TSPropertySignature", "TSMethodSignature"},
        key \in {NoName, Identifier("id"), StringLiteralKey},
        ta \in {<< >>} \cup {<<sh>> : sh \in TypeShapes},
        opt \in BOOLEAN}

NotCalled == [k |-> "none", s |-> << >>]
NoMember == Member("none", NoName, << >>, FALSE)

(***************************************************************************)
(* SpecLower: one call of generateType or of generateMember on a member    *)
(* drawn from Members.                                                     *)
(***************************************************************************)
InitLower ==
    /\ pc = "lower"
    /\ member \in Members
    /\ lowered = NotCalled
    /\ error = "none"
    /\ parsed = << >> /\ definitions = << >> /\ updatedAST = << >>
    /\ ast = << >> /\ visited = 0 /\ typeDefs = << >> /\ mutationArgs = {}
    /\ outputFilePath = FALSE /\ output = "none"

CallGenerateType ==
    /\ pc = "lower"
    /\ Len(member.typeAnnotation) > 0
    /\ lowered' = generateType(member.typeAnnotation[1])
    /\ pc' = "generateType"
    /\ UNCHANGED <<member, error, rewriteVars, pipeVars>>

CallGenerateMember ==
    /\ pc = "lower"
    /\ lowered' = generateMember(member)
    /\ pc' = "generateMember"
    /\ UNCHANGED <<member, error, rewriteVars, pipeVars>>

NextLower == CallGenerateType \/ CallGenerateMember

SpecLower == InitLower /\ [][NextLower]_vars

(***************************************************************************)
(* The annotation of a type alias: a type literal with members, an         *)
(* intersection of annotations, or anything else.                          *)
(***************************************************************************)
TypeLiteral(members) ==
    [type |-> "TSTypeLiteral", members |-> members, types |-> << >>]
Intersection(types) ==
    [type |-> "TSIntersectionType", members |-> << >>, types |-> types]
OtherAnnotation(t) == [type |-> t, members |-> << >>, types |-> << >>]

\* Array.prototype.join on strings: the elements with sep between them.
RECURSIVE Join(_, _)
Join(strs, sep) ==
    IF Len(strs) = 0 THEN << >>
    ELSE IF Len(strs) = 1 THEN strs[1]
    ELSE strs[1] \o sep \o Join(Tail(strs), sep)

\* members.map(member => generateMember(member))
MapGenerateMember(members) == [i \in 1..Len(members) |-> generateMember(members[i])]
AnyThrows(vals) == \E i \in 1..Len(vals) : vals[i].k = "throw"
Strings(vals) == [i \in 1..Len(vals) |-> vals[i].s]

\* types.find(t => t.type === 'TSTypeLiteral'): its index, 0 when none.
FindTypeLiteral(types) ==
    LET matching == {i \in 1..Len(types) : types[i].type = "TSTypeLiteral"}
    IN  IF matching = {} THEN 0
        ELSE CHOOSE i \in matching : \A j \in matching : i <= j

\* member.key.name of a member without key is a TypeError; join() turns an
\* undefined name into the empty string.
generateScalarsDefinition(typeAnnotation) ==
    IF typeAnnotation.type = "TSTypeLiteral" /\ Len(typeAnnotation.members) > 0
    THEN IF \E i \in 1..Len(typeAnnotation.members) :
                typeAnnotation.members[i].key.type = "none"
         THEN JsThrow
         ELSE JsString(<<"scalar ">>
                \o Join([i \in 1..Len(typeAnnotation.members) |->
                            typeAnnotation.members[i].key.name], <<"\n scalar ">>)
                \o <<"\n">>)
    ELSE JsString(<< >>)

\* `${open}${members.map(generateMember).join(sep)}${close}`
Wrap(open, members, sep, close) ==
    LET vals == MapGenerateMember(members)
    IN  IF AnyThrows(vals) THEN JsThrow
        ELSE JsString(<<open>> \o Join(Strings(vals), <<sep>>) \o <<close>>)

generateArgumentsDefinition(typeAnnotation) ==
    CASE typeAnnotation.type = "TSTypeLiteral" ->
            IF Len(typeAnnotation.members) > 0
            THEN Wrap("(", typeAnnotation.members, ", ", ")")
            ELSE JsString(<< >>)
      [] typeAnnotation.type = "TSIntersectionType" ->
            LET ann == FindTypeLiteral(typeAnnotation.types)
            IN  IF ann > 0 /\ Len(typeAnnotation.types[ann].members) > 0
                THEN Wrap("(n", typeAnnotation.types[ann].members, ", ", ")")
                ELSE JsString(<< >>)
      [] OTHER -> JsString(<< >>)

generateTypeScriptDefinition(typeAnnotation) ==
    CASE typeAnnotation.type = "TSTypeLiteral" ->
            IF Len(typeAnnotation.members) > 0
            THEN Wrap("{\n", typeAnnotation.members, "\n", "\n}")
            ELSE JsString(<< >>)
      [] typeAnnotation.type = "TSIntersectionType" ->
            LET ann == FindTypeLiteral(typeAnnotation.types)
            IN  IF ann > 0 /\ Len(typeAnnotation.types[ann].members) > 0
                THEN Wrap("{\n", typeAnnotation.types[ann].members, "\n", "\n}")
                ELSE JsString(<< >>)
      [] OTHER -> JsString(<< >>)

(***************************************************************************)
(* Claims about the lowering functions (checked under SpecLower).          *)
(***************************************************************************)

\* C5: generateType is total: on every type shape, the degenerate and the
\* unrecognized ones included, it returns a string and never raises.
C5_GenerateTypeTotal ==
    pc = "generateType" => lowered.k = "string"

\* The forms the rule table of C6 names, nested to any depth.
RECURSIVE C6_Recognized(_)
C6_Recognized(sh) ==
    CASE sh.type \in {"TSStringKeyword", "TSAnyKeyword", "TSTypeLiteral",
                      "TSNumberKeyword", "TSBooleanKeyword"} -> TRUE
      [] sh.type = "TSTypeReference" ->
            IF sh.typeName.type # "Identifier" THEN FALSE
            ELSE IF NameIs(sh, "Scalars")
            THEN sh.tp /\ Len(sh.params) = 1 /\ IsStringLiteral(sh.params[1])
            ELSE IF NameIs(sh, "Maybe") \/ NameIs(sh, "Array")
            THEN sh.tp /\ Len(sh.params) = 1 /\ C6_Recognized(sh.params[1])
            ELSE TRUE
      [] sh.type = "TSIndexedAccessType" ->
            /\ sh.objectType[1].type = "TSTypeReference"
            /\ sh.objectType[1].typeName.type = "Identifier"
            /\ NameIs(sh.objectType[1], "Scalars") => IsStringLiteral(sh.indexType[1])
      [] OTHER -> FALSE

\* The rule table of C6: the string each recognized form maps to.
RECURSIVE C6_RuleTable(_)
C6_RuleTable(sh) ==
    CASE sh.type \in {"TSStringKeyword", "TSAnyKeyword", "TSTypeLiteral"} -> <<"String">>
      [] sh.type = "TSNumberKeyword" -> <<"Int">>
      [] sh.type = "TSBooleanKeyword" -> <<"Boolean">>
      [] sh.type = "TSTypeReference" ->
            IF NameIs(sh, "Scalars") THEN sh.params[1].literal.value
            ELSE IF NameIs(sh, "Maybe") THEN C6_RuleTable(sh.params[1])
            ELSE IF NameIs(sh, "Array")
            THEN <<"[">> \o C6_RuleTable(sh.params[1]) \o <<"]">>
            ELSE sh.typeName.name
      [] sh.type = "TSIndexedAccessType" ->
            IF NameIs(sh.objectType[1], "Scalars") THEN sh.indexType[1].literal.value
            ELSE sh.objectType[1].typeName.name
      [] OTHER -> <<"Unknown">>

\* C6: on every shape built by nesting the recognized forms, generateType
\* returns exactly the string the rule table gives (a non-Scalars indexed
\* access gives the object type's name as a string).
C6_GenerateTypeRuleTable ==
    (pc = "generateType" /\ C6_Recognized(member.typeAnnotation[1]))
        => lowered = JsString(C6_RuleTable(member.typeAnnotation[1]))

\* C9: for a property signature with a name and a type, generateMember
\* returns two spaces + name + ": " + the mapped type + marker, the marker
\* being "!" exactly when optional is false; for a member lacking a name or
\* a type it returns the empty string.
C9_GenerateMemberFormat ==
    pc = "generateMember" =>
        IF /\ member.type = "TSPropertySignature"
           /\ member.key.type = "Identifier"
           /\ Len(member.typeAnnotation) > 0
        THEN LET mapped == generateType(member.typeAnnotation[1])
                 marker == IF member.optional = FALSE THEN <<"!">> ELSE << >>
             IN  /\ mapped.k = "string"
                 /\ lowered = JsString(<<"  ">> \o member.key.name \o <<": ">>
                                       \o mapped.s \o marker)
        ELSE (member.key.type = "none" \/ Len(member.typeAnnotation) = 0)
                => lowered = JsString(<< >>)

(***************************************************************************)
(* The parsed GraphQL document.  A name is a token sequence.  A GraphQL    *)
(* type node is its wrappers, outermost first, around the named type: for  *)
(* `[Address]!` wraps = <<"NonNullType", "ListType">>.  A field definition *)
(* has a name, an argument list and a type; the fields of an *Args type    *)
(* are field definitions too.  A definition has a kind, a name (absent on  *)
(* a schema definition) and fields.                                        *)
(***************************************************************************)
GType(wraps, n) == [wraps |-> wraps, name |-> n]
Field(n, arguments, type) == [name |-> n, arguments |-> arguments, type |-> type]
Definition(kind, n, fields) ==
    [kind |-> kind, hasName |-> TRUE, name |-> n, fields |-> fields]
SchemaDefinition ==
    [kind |-> "SchemaDefinition", hasName |-> FALSE, name |-> << >>, fields |-> << >>]
ObjectType(n, fields) == Definition("ObjectTypeDefinition", n, fields)

\* arg.type.type && arg.type.type.name: the type has exactly one wrapper.
HasTypeTypeName(type) == Len(type.wraps) = 1

\* String.prototype.toLowerCase, token by token.
LowerToken(t) ==
    CASE t = "Query" -> "query"
      [] t = "Mutation" -> "mutation"
      [] t = "Args" -> "args"
      [] t = "Arg" -> "arg"
      [] t = "Address" -> "address"
      [] t = "My" -> "my"
      [] t = "X" -> "x"
      [] t = "F" -> "f"
      [] OTHER -> t
toLowerCase(n) == [i \in 1..Len(n) |-> LowerToken(n[i])]

\* `${prefix}${field.name.value}Args`
ArgsName(prefix, fieldName) == <<prefix>> \o fieldName \o <<"Args">>

\* Array.prototype.findIndex / find: the least of the indices that satisfy
\* the predicate, 0 when none does.
FindIndex(matching) ==
    IF matching = {} THEN 0
    ELSE CHOOSE i \in matching : \A j \in matching : i <= j

IsObjectNamed(def, n) == def.kind = "ObjectTypeDefinition" /\ def.name = n

FindObject(defs, n) ==
    FindIndex({i \in 1..Len(defs) : IsObjectNamed(defs[i], n)})

FindArgs(defs, prefix, fieldName) ==
    FindIndex({i \in 1..Len(defs) :
                /\ defs[i].kind = "ObjectTypeDefinition"
                /\ toLowerCase(defs[i].name) = toLowerCase(ArgsName(prefix, fieldName))})

FindArgType(defs, arg) ==
    FindIndex({i \in 1..Len(defs) :
                /\ defs[i].kind = "ObjectTypeDefinition"
                /\ HasTypeTypeName(arg.type)
                /\ defs[i].name = arg.type.name})

\* Reposition with the splice forgotten: Query is pushed but not removed.
Reposition_NoSplice(defs) ==
    LET queryIndex == FindObject(defs, <<"Query">>)
    IN  IF queryIndex > 0 THEN Append(defs, defs[queryIndex]) ELSE defs

\* definitions.splice(queryIndex, 1); definitions.push(queryDef)
Reposition(defs) ==
    LET queryIndex == FindObject(defs, <<"Query">>)
    IN  IF queryIndex > 0
        THEN SubSeq(defs, 1, queryIndex - 1)
                \o SubSeq(defs, queryIndex + 1, Len(defs))
                \o <<defs[queryIndex]>>
        ELSE defs

\* queryArgs.fields.forEach(arg => { ... t.kind = 'InputObjectTypeDefinition' })
RECURSIVE Reclassify(_, _, _)
Reclassify(defs, args, n) ==
    IF n > Len(args) THEN defs
    ELSE LET t == FindArgType(defs, args[n])
         IN  Reclassify(IF t > 0
                        THEN [defs EXCEPT ![t].kind = "InputObjectTypeDefinition"]
                        ELSE defs,
                        args, n + 1)

\* One turn of query.fields.forEach: bind field j of the definition at q.
BindField(defs, q, j, prefix) ==
    LET queryArgs == FindArgs(defs, prefix, defs[q].fields[j].name)
    IN  IF queryArgs > 0
        THEN Reclassify(
                [defs EXCEPT ![q].fields[j].arguments = defs[queryArgs].fields],
                defs[queryArgs].fields, 1)
        ELSE defs

RECURSIVE BindFields(_, _, _, _)
BindFields(defs, q, j, prefix) ==
    IF j > Len(defs[q].fields) THEN defs
    ELSE BindFields(BindField(defs, q, j, prefix), q, j + 1, prefix)

\* The bind pass for one root type: `Query` or `Mutation`.
Bind(defs, root) ==
    LET query == FindObject(defs, <<root>>)
    IN  IF query > 0 THEN BindFields(defs, query, 1, root) ELSE defs

\* def.name.value.match(/<root>.*Args/): the root token, later the Args token.
MatchesArgs(n, root) ==
    \E i, j \in 1..Len(n) : i < j /\ n[i] = root /\ n[j] = "Args"

\* The filter with its Query half forgotten.
Pruned_MutationOnly(def) == MatchesArgs(def.name, "Mutation")

Pruned(def) == MatchesArgs(def.name, "Mutation") \/ MatchesArgs(def.name, "Query")

\* def.name.value of a definition without a name is a TypeError.
PruneThrows(defs) == \E i \in 1..Len(defs) : ~defs[i].hasName

Keep(def) == ~Pruned(def)
Prune(defs) == SelectSeq(defs, Keep)

(***************************************************************************)
(* The earlier copy of the callback (lines 22-141 of the file): the same   *)
(* reposition, then the Mutation bind with an unguarded lookup of the      *)
(* argument type, the Query bind without reclassification, and a prune on  *)
(* /Mutation.*Arg/ and /Query.*Arg/.  An operator that can raise returns   *)
(* the definitions together with whether it raised.                        *)
(***************************************************************************)
Returned(defs) == [throws |-> FALSE, defs |-> defs]
Raised(defs) == [throws |-> TRUE, defs |-> defs]

\* arg.type.type.name.value is a TypeError unless the type has exactly one
\* wrapper; find() evaluates it on the first object type it meets.
ArgTypeThrowsFirst(defs, arg) ==
    /\ ~HasTypeTypeName(arg.type)
    /\ \E i \in 1..Len(defs) : defs[i].kind = "ObjectTypeDefinition"

RECURSIVE ReclassifyFirst(_, _, _)
ReclassifyFirst(defs, args, n) ==
    IF n > Len(args) THEN Returned(defs)
    ELSE IF ArgTypeThrowsFirst(defs, args[n]) THEN Raised(defs)
    ELSE LET t == FindArgType(defs, args[n])
         IN  ReclassifyFirst(IF t > 0
                             THEN [defs EXCEPT ![t].kind = "InputObjectTypeDefinition"]
                             ELSE defs,
                             args, n + 1)

RECURSIVE BindMutationFieldsFirst(_, _, _)
BindMutationFieldsFirst(defs, q, j) ==
    IF j > Len(defs[q].fields) THEN Returned(defs)
    ELSE LET mutationArg == FindArgs(defs, "Mutation", defs[q].fields[j].name)
             bound == IF mutationArg > 0
                      THEN ReclassifyFirst(
                              [defs EXCEPT ![q].fields[j].arguments
                                                = defs[mutationArg].fields],
                              defs[mutationArg].fields, 1)
                      ELSE Returned(defs)
         IN  IF bound.throws THEN bound
             ELSE BindMutationFieldsFirst(bound.defs, q, j + 1)

BindMutationFirst(defs) ==
    LET mutation == FindObject(defs, <<"Mutation">>)
    IN  IF mutation > 0 THEN BindMutationFieldsFirst(defs, mutation, 1)
        ELSE Returned(defs)

RECURSIVE BindQueryFieldsFirst(_, _, _)
BindQueryFieldsFirst(defs, q, j) ==
    IF j > Len(defs[q].fields) THEN defs
    ELSE LET mutationArg == FindArgs(defs, "Query", defs[q].fields[j].name)
         IN  BindQueryFieldsFirst(
                IF mutationArg > 0
                THEN [defs EXCEPT ![q].fields[j].arguments = defs[mutationArg].fields]
                ELSE defs,
                q, j + 1)

BindQueryFirst(defs) ==
    LET query == FindObject(defs, <<"Query">>)
    IN  IF query > 0 THEN BindQueryFieldsFirst(defs, query, 1) ELSE defs

\* /<root>.*Arg/.test(d.name.value): the root token, later a token that
\* holds "Arg".
MatchesArg(n, root) ==
    \E i, j \in 1..Len(n) : i < j /\ n[i] = root /\ n[j] \in {"Arg", "Args"}

PrunedFirst(def) == MatchesArg(def.name, "Mutation") \/ MatchesArg(def.name, "Query")

KeepFirst(def) == ~PrunedFirst(def)
PruneFirst(defs) == SelectSeq(defs, KeepFirst)

(***************************************************************************)
(* The documents the rewrite is exercised on: every sequence of one to     *)
(* MaxDefs definitions drawn, with repetition, from DefinitionPool.        *)
(***************************************************************************)
NamedType(n) == GType(<< >>, <<n>>)
Plain(n) == Field(<<n>>, << >>, NamedType("String"))
Arg(n, wraps, t) == Field(<<n>>, << >>, GType(wraps, t))

QueryfArgs == <<"Query", "f", "Args">>
QuerykArgs == <<"Query", "k", "Args">>
MutationfArgs == <<"Mutation", "f", "Args">>

ArgWraps == {<< >>, <<"NonNullType">>, <<"ListType">>, <<"NonNullType", "ListType">>}

DefinitionPool ==
    {ObjectType(<<"Query">>, <<Plain("f"), Plain("k")>>),
     ObjectType(<<"Query">>,
                <<Field(<<"f">>, <<Arg("old", << >>, <<"Int">>)>>, NamedType("String"))>>),
     ObjectType(<<"Mutation">>, <<Plain("f")>>),
     ObjectType(<<"Address">>, <<Plain("street")>>),
     ObjectType(QuerykArgs, <<Arg("b", <<"NonNullType">>, <<"Int">>)>>),
     ObjectType(<<"query", "f", "args">>, <<Arg("c", << >>, <<"Int">>)>>),
     ObjectType(QueryfArgs, <<Arg("a", <<"NonNullType">>, QuerykArgs)>>),
     ObjectType(QueryfArgs, <<Arg("a", <<"NonNullType">>, <<"Mutation">>)>>),
     ObjectType(MutationfArgs, <<Arg("a", <<"NonNullType">>, <<"Address">>)>>),
     ObjectType(MutationfArgs, <<Arg("a", <<"NonNullType">>, <<"Query">>)>>),
     ObjectType(MutationfArgs, <<Arg("a", << >>, <<"Address">>)>>),
     ObjectType(<<"My", "Query", "X", "Args">>, <<Plain("d")>>),
     ObjectType(<<"Query", "X", "Arg">>, <<Plain("d")>>),
     Definition("ScalarTypeDefinition", QuerykArgs, << >>),
     SchemaDefinition}
    \cup {ObjectType(QueryfArgs, <<Arg("a", w, <<"Address">>)>>) : w \in ArgWraps}

RECURSIVE SeqsUpTo(_, _)
SeqsUpTo(S, n) ==
    IF n = 0 THEN {<< >>}
    ELSE LET shorter == SeqsUpTo(S, n - 1)
         IN  shorter \cup {Append(q, x) : q \in shorter, x \in S}

\* Documents one definition longer, on which the two bind passes meet: both
\* root types with *Args definitions whose arguments name the other root
\* type, the other pass's *Args definition, or a shared object type, each
\* definition at most once and in every order.
InteractingPool ==
    {ObjectType(<<"Query">>, <<Plain("f"), Plain("k")>>),
     ObjectType(<<"Mutation">>, <<Plain("f")>>),
     ObjectType(QueryfArgs, <<Arg("a", <<"NonNullType">>, <<"Mutation">>)>>),
     ObjectType(QueryfArgs, <<Arg("a", <<"NonNullType">>, MutationfArgs)>>),
     ObjectType(QueryfArgs, <<Arg("a", <<"NonNullType">>, <<"Address">>)>>),
     ObjectType(MutationfArgs, <<Arg("a", <<"NonNullType">>, <<"Query">>)>>),
     ObjectType(MutationfArgs, <<Arg("a", <<"NonNullType">>, <<"Address">>)>>)}

InteractingDocuments ==
    {d \in SeqsUpTo(InteractingPool, MaxDefs + 1) :
        /\ Len(d) = MaxDefs + 1
        /\ \A i, j \in 1..Len(d) : d[i] = d[j] => i = j}

Documents == (SeqsUpTo(DefinitionPool, MaxDefs) \ {<< >>}) \cup InteractingDocuments

(***************************************************************************)
(* Spec: the rewrite of one parsed document, one action per stage of the   *)
(* readFile callback between parse() and print().                          *)
(***************************************************************************)
Init ==
    /\ pc = "reposition"
    /\ parsed \in Documents
    /\ definitions = parsed
    /\ updatedAST = << >>
    /\ error = "none"
    /\ member = NoMember /\ lowered = NotCalled
    /\ ast = << >> /\ visited = 0 /\ typeDefs = << >> /\ mutationArgs = {}
    /\ outputFilePath = FALSE /\ output = "none"

RepositionQuery ==
    /\ pc = "reposition"
    /\ definitions' = Reposition(definitions)
    /\ pc' = "bindQuery"
    /\ UNCHANGED <<parsed, updatedAST, error, lowerVars, pipeVars>>

BindQuery ==
    /\ pc = "bindQuery"
    /\ definitions' = Bind(definitions, "Query")
    /\ pc' = "bindMutation"
    /\ UNCHANGED <<parsed, updatedAST, error, lowerVars, pipeVars>>

BindMutation ==
    /\ pc = "bindMutation"
    /\ definitions' = Bind(definitions, "Mutation")
    /\ pc' = "prune"
    /\ UNCHANGED <<parsed, updatedAST, error, lowerVars, pipeVars>>

PruneArgs ==
    /\ pc = "prune"
    /\ IF PruneThrows(definitions)
       THEN pc' = "failed" /\ error' = "TypeError" /\ UNCHANGED updatedAST
       ELSE pc' = "done" /\ updatedAST' = <<Prune(definitions)>> /\ UNCHANGED error
    /\ UNCHANGED <<parsed, definitions, lowerVars, pipeVars>>

\* The same four stages in the earlier copy of the callback.
RepositionQueryFirst ==
    /\ pc = "reposition"
    /\ definitions' = Reposition(definitions)
    /\ pc' = "bindMutationFirst"
    /\ UNCHANGED <<parsed, updatedAST, error, lowerVars, pipeVars>>

BindMutationFirstCopy ==
    /\ pc = "bindMutationFirst"
    /\ LET bound == BindMutationFirst(definitions)
       IN  /\ definitions' = bound.defs
           /\ IF bound.throws
              THEN pc' = "failed" /\ error' = "TypeError"
              ELSE pc' = "bindQueryFirst" /\ UNCHANGED error
    /\ UNCHANGED <<parsed, updatedAST, lowerVars, pipeVars>>

BindQueryFirstCopy ==
    /\ pc = "bindQueryFirst"
    /\ definitions' = BindQueryFirst(definitions)
    /\ pc' = "pruneFirst"
    /\ UNCHANGED <<parsed, updatedAST, error, lowerVars, pipeVars>>

PruneArgsFirst ==
    /\ pc = "pruneFirst"
    /\ IF PruneThrows(definitions)
       THEN pc' = "failed" /\ error' = "TypeError" /\ UNCHANGED updatedAST
       ELSE pc' = "doneFirst" /\ updatedAST' = <<PruneFirst(definitions)>>
                /\ UNCHANGED error
    /\ UNCHANGED <<parsed, definitions, lowerVars, pipeVars>>

Next ==
    \/ RepositionQuery \/ BindQuery \/ BindMutation \/ PruneArgs
    \/ RepositionQueryFirst \/ BindMutationFirstCopy \/ BindQueryFirstCopy
    \/ PruneArgsFirst

Spec == Init /\ [][Next]_vars

(***************************************************************************)
(* Claims about the rewrite (checked under Spec).  out is the definition   *)
(* list of updatedAST once the run is done.  Done is the end of the        *)
(* rewrite in the current copy of the callback (lines 341-393), Rewritten  *)
(* its end in either copy.                                                 *)
(***************************************************************************)
Done == pc = "done"
Rewritten == pc \in {"done", "doneFirst"}
out == updatedAST[1]
Roots == {"Query", "Mutation"}

\* One whole run of the rewrite on a document whose definitions all have names.
Rewrite(defs) == Prune(Bind(Bind(Reposition(defs), "Query"), "Mutation"))

ObjectsNamed(defs, root) == {i \in 1..Len(defs) : IsObjectNamed(defs[i], <<root>>)}

\* C1: in the output the object types Query and Mutation, when present, are
\* the last two definitions, Query before Mutation; when only one of them
\* is present it is the last definition.
C1_QueryMutationLast ==
    Done =>
        LET n == Len(out)
            hasQuery == ObjectsNamed(out, "Query") # {}
            hasMutation == ObjectsNamed(out, "Mutation") # {}
        IN  /\ (hasQuery /\ hasMutation) =>
                    /\ n >= 2
                    /\ IsObjectNamed(out[n - 1], <<"Query">>)
                    /\ IsObjectNamed(out[n], <<"Mutation">>)
            /\ (hasQuery /\ ~hasMutation) => IsObjectNamed(out[n], <<"Query">>)
            /\ (hasMutation /\ ~hasQuery) => IsObjectNamed(out[n], <<"Mutation">>)

\* A name of the form Mutation<Identifier>Args or Query<Identifier>Args.
C2_IsArgsName(n) ==
    Len(n) >= 3 /\ n[1] \in Roots /\ n[Len(n)] = "Args"

\* C2: the output holds no definition, of any kind, whose name has the form
\* Mutation<Identifier>Args or Query<Identifier>Args, bound or not.
C2_NoArgsDefinitionSurvives ==
    Rewritten => \A i \in 1..Len(out) : ~C2_IsArgsName(out[i].name)

\* C2's case: the run is done on a document that held a scalar with an *Args
\* name and an *Args object type no field was bound to.
C2_Witness ==
    /\ Done
    /\ \E i \in 1..Len(parsed) :
            parsed[i].kind = "ScalarTypeDefinition" /\ C2_IsArgsName(parsed[i].name)
    /\ \E i \in 1..Len(parsed) : IsObjectNamed(parsed[i], MutationfArgs)
    /\ ObjectsNamed(parsed, "Mutation") = {}

\* Field j of the definition at q of the working copy was bound from an
\* *Args definition of the parsed document.
C3_BoundFrom(root, q, j) ==
    \E a \in 1..Len(parsed) :
        /\ parsed[a].kind = "ObjectTypeDefinition"
        /\ toLowerCase(parsed[a].name)
              = toLowerCase(ArgsName(root, definitions[q].fields[j].name))
        /\ definitions[q].fields[j].arguments = parsed[a].fields

\* The object type parsed[t] appears in the output as an input type with
\* the fields it had.
C3_AppearsAsInput(t) ==
    \E o \in 1..Len(out) :
        /\ out[o].name = parsed[t].name
        /\ out[o].kind = "InputObjectTypeDefinition"
        /\ out[o].fields = parsed[t].fields

\* C3: for every Query or Mutation field bound from an *Args definition,
\* every object type named as the type of one of its arguments (non-null,
\* nullable or list) is in the output as an input type with the same fields.
C3_ArgumentTypesBecomeInputs ==
    Done =>
        \A root \in Roots : \A q \in 1..Len(definitions) :
            definitions[q].name = <<root>> =>
                \A j \in 1..Len(definitions[q].fields) :
                    C3_BoundFrom(root, q, j) =>
                        \A n \in 1..Len(definitions[q].fields[j].arguments) :
                            \A t \in 1..Len(parsed) :
                                (/\ parsed[t].kind = "ObjectTypeDefinition"
                                 /\ parsed[t].name
                                      = definitions[q].fields[j].arguments[n].type.name)
                                    => C3_AppearsAsInput(t)

\* The argument list C4 gives a field of root: the fields of the earliest
\* object type of the parsed document named root + field name + Args,
\* compared case-insensitively, else the field's own argument list.
C4_Expected(root, field) ==
    LET a == FindArgs(parsed, root, field.name)
    IN  IF a > 0 THEN parsed[a].fields ELSE field.arguments

C4_OnlyDefinitionNamed(defs, q, root) ==
    \A i \in 1..Len(defs) : defs[i].name = <<root>> => i = q

\* C4: each field of the Query (Mutation) object type ends with the field
\* list of the earliest matching *Args object type as its argument list,
\* and with its original argument list when there is none; with neither
\* root type in the document the bind stages change nothing.
C4_FieldsBoundToEarliestArgs ==
    Done =>
        /\ \A root \in Roots : \A q0 \in 1..Len(parsed) :
                (IsObjectNamed(parsed[q0], <<root>>)
                    /\ C4_OnlyDefinitionNamed(parsed, q0, root)) =>
                    \A q \in 1..Len(definitions) :
                        definitions[q].name = <<root>> =>
                            \A j \in 1..Len(parsed[q0].fields) :
                                definitions[q].fields[j].arguments
                                    = C4_Expected(root, parsed[q0].fields[j])
        /\ (\A root \in Roots : ObjectsNamed(parsed, root) = {})
                => definitions = parsed

\* C7 as stated: a second run of the rewrite on the output of the first
\* returns that output unchanged, whatever the input document.
C7_Idempotent ==
    Done => Rewrite(out) = out

\* A residual *Args definition: an object type of defs that a field of a
\* Query or Mutation object type of defs would be bound to.
C7_Residual(defs) ==
    \E root \in Roots : \E q \in ObjectsNamed(defs, root) :
        \E j \in 1..Len(defs[q].fields) :
            FindArgs(defs, root, defs[q].fields[j].name) > 0

\* C7 amended: a second run returns the output of the first unchanged when
\* the input held at most one object type named Query and the output holds
\* no residual *Args definition.
C7_IdempotentWithoutResidue ==
    (Done /\ Cardinality(ObjectsNamed(parsed, "Query")) <= 1 /\ ~C7_Residual(out))
        => Rewrite(out) = out

\* C7's case: a run that repositioned Query, bound a field and pruned the
\* *Args definition, leaving no residue.
C7_Witness ==
    /\ Done
    /\ Cardinality(ObjectsNamed(parsed, "Query")) = 1
    /\ ~IsObjectNamed(parsed[Len(parsed)], <<"Query">>)
    /\ \E q \in ObjectsNamed(parsed, "Query") :
            FindArgs(parsed, "Query", parsed[q].fields[1].name) > 0
    /\ Len(out) < Len(parsed)
    /\ out # parsed
    /\ ~C7_Residual(out)

\* C8 as stated: whatever the input, the output holds at most one object
\* type named Query and at most one named Mutation.
C8_AtMostOneRoot ==
    Done => \A root \in Roots : Cardinality(ObjectsNamed(out, root)) <= 1

\* C8 amended: the output holds no more object types named Query (Mutation)
\* than the input did, so at most one when the input held at most one.
C8_NoMoreRootsThanParsed ==
    Done => \A root \in Roots :
        Cardinality(ObjectsNamed(out, root)) <= Cardinality(ObjectsNamed(parsed, root))

\* C8's case: one Query object type, not last in the input, moved by the
\* run and still the only one in the output.
C8_Witness ==
    /\ Done
    /\ Cardinality(ObjectsNamed(parsed, "Query")) = 1
    /\ ~IsObjectNamed(parsed[Len(parsed)], <<"Query">>)
    /\ Cardinality(ObjectsNamed(out, "Query")) = 1
    /\ IsObjectNamed(out[Len(out)], <<"Query">>)

\* The two bind passes have run, Query first as the callback runs them.
C12_Bound == pc = "prune"

\* The document the same two passes leave when Mutation is bound first.
C12_MutationThenQuery == Bind(Bind(Reposition(parsed), "Mutation"), "Query")

\* C12: the Mutation bind and the Query bind are independent: the document
\* left by Query-bind then Mutation-bind (argument lists and definition
\* kinds) is the one Mutation-bind then Query-bind leaves.
C12_BindOrderIndependent ==
    C12_Bound => definitions = C12_MutationThenQuery

\* A name of the form Mutation<Identifier>Args or Query<Identifier>Args.
C14_NamedArgs(n) ==
    Len(n) >= 2 /\ n[1] \in {"Mutation", "Query"} /\ n[Len(n)] = "Args"

\* The Query type, whatever kind the bind passes have left it.
C14_IsQuery(def) == def.hasName /\ def.name = <<"Query">>
C14_NotQuery(def) == ~C14_IsQuery(def)
C14_Framed(def) == ~C14_IsQuery(def) /\ ~(def.hasName /\ C14_NamedArgs(def.name))
C14_Names(defs) == [i \in 1..Len(defs) |-> [hasName |-> defs[i].hasName, name |-> defs[i].name]]

\* C14: the rewrite removes and reorders nothing but what its stages name:
\* the output without the Query object type is, name by name and in order,
\* the input without the Query object type and without the definitions
\* named Mutation<Identifier>Args or Query<Identifier>Args.
C14_NothingElseRemovedOrReordered ==
    Done =>
        C14_Names(SelectSeq(out, C14_NotQuery))
            = C14_Names(SelectSeq(parsed, C14_Framed))

(***************************************************************************)
(* The top-level nodes of a source file that traverse() visits: tagged     *)
(* templates, type aliases, enums, and nodes no visitor handles.           *)
(***************************************************************************)
NoAnnotation == OtherAnnotation("none")
TaggedTemplate(tag, cooked) ==
    [type |-> "TaggedTemplateExpression", tag |-> tag, cooked |-> cooked,
     id |-> << >>, typeAnnotation |-> NoAnnotation, members |-> << >>]
TypeAlias(id, typeAnnotation) ==
    [type |-> "TSTypeAliasDeclaration", tag |-> NoName, cooked |-> << >>,
     id |-> id, typeAnnotation |-> typeAnnotation, members |-> << >>]
Enum(id, members) ==
    [type |-> "TSEnumDeclaration", tag |-> NoName, cooked |-> << >>,
     id |-> id, typeAnnotation |-> NoAnnotation, members |-> members]
OtherNode ==
    [type |-> "VariableDeclaration", tag |-> NoName, cooked |-> << >>,
     id |-> << >>, typeAnnotation |-> NoAnnotation, members |-> << >>]

Property(n, t, opt) == Member("TSPropertySignature", Identifier(n), <<t>>, opt)
IdString == Property("id", Keyword("TSStringKeyword"), FALSE)
NameOptional == Property("name", Keyword("TSStringKeyword"), TRUE)
IdBareMaybe == Property("id", BareReference(Identifier("Maybe")), FALSE)
IndexSignature ==
    Member("TSIndexSignature", NoName, <<Keyword("TSStringKeyword")>>, FALSE)

NodePool ==
    {TaggedTemplate(Identifier("gql"), <<"type Query { f: String }">>),
     TaggedTemplate(Identifier("css"), <<"a { }">>),
     TypeAlias(<<"Scalars">>, TypeLiteral(<<Property("DateTime",
                                              Keyword("TSStringKeyword"), FALSE)>>)),
     TypeAlias(<<"Scalars">>, TypeLiteral(<< >>)),
     TypeAlias(<<"Scalars">>, TypeLiteral(<<IndexSignature>>)),
     TypeAlias(<<"User">>, TypeLiteral(<<IdString, NameOptional>>)),
     TypeAlias(<<"User">>, TypeLiteral(<< >>)),
     TypeAlias(<<"User">>, OtherAnnotation("TSUnionType")),
     TypeAlias(<<"User">>, TypeLiteral(<<IdBareMaybe>>)),
     TypeAlias(<<"User">>,
               Intersection(<<OtherAnnotation("TSTypeReference"), TypeLiteral(<<IdString>>)>>)),
     TypeAlias(<<"User">>, Intersection(<<OtherAnnotation("TSTypeReference")>>)),
     TypeAlias(MutationfArgs, TypeLiteral(<<IdString>>)),
     TypeAlias(MutationfArgs,
               Intersection(<<OtherAnnotation("TSTypeReference"), TypeLiteral(<<IdString>>)>>)),
     TypeAlias(MutationfArgs,
               Intersection(<<TypeLiteral(<< >>), TypeLiteral(<<IdString>>)>>)),
     TypeAlias(QueryfArgs, TypeLiteral(<<IdString>>)),
     Enum(<<"Role">>, <<"Admin", "user">>),
     OtherNode}

SourceFiles == SeqsUpTo(NodePool, MaxNodes)

\* What parse() may return for a non-trivial SDL text: parse is outside the
\* program, so its result is any one-definition document of the pool.
ParsedDocuments == {<<d>> : d \in DefinitionPool}

\* String.prototype.toUpperCase on an enum member name.
toUpperCase(t) ==
    CASE t = "Admin" -> "ADMIN"
      [] t = "user" -> "USER"
      [] OTHER -> t

\* The test with startsWith('Mutation') forgotten: any name ending in Args.
IsMutationArgs_AnyArgs(id) ==
    Len(id) > 0 /\ id[Len(id)] = "Args"

\* id.name.startsWith('Mutation') && id.name.endsWith('Args')
IsMutationArgs(id) ==
    Len(id) > 0 /\ id[1] = "Mutation" /\ id[Len(id)] = "Args"

\* mutationArgs[name] = text
Assign(table, n, text) == {e \in table : e[1] # n} \cup {<<n, text>>}

(***************************************************************************)
(* SpecPipe: one run of the program, from the readFile callback to the     *)
(* written or printed schema.                                              *)
(***************************************************************************)
InitPipe ==
    /\ pc = "readFile"
    /\ error = "none"
    /\ ast \in SourceFiles
    /\ outputFilePath \in BOOLEAN
    /\ visited = 0 /\ typeDefs = << >> /\ mutationArgs = {} /\ output = "none"
    /\ parsed = << >> /\ definitions = << >> /\ updatedAST = << >>
    /\ member = NoMember /\ lowered = NotCalled

Fail(e) == pc' = "failed" /\ error' = e

\* if (err) { console.error('Error reading file:', err); return; }
ReadFileError ==
    /\ pc = "readFile"
    /\ Fail("Error reading file")
    /\ UNCHANGED <<lowerVars, rewriteVars, pipeVars>>

\* babelParser.parse(data, ...) throws on a file that is not TypeScript.
BabelParseError ==
    /\ pc = "readFile"
    /\ Fail("SyntaxError")
    /\ UNCHANGED <<lowerVars, rewriteVars, pipeVars>>

BabelParse ==
    /\ pc = "readFile"
    /\ pc' = "traverse"
    /\ UNCHANGED <<error, lowerVars, rewriteVars, pipeVars>>

Visiting(t) == pc = "traverse" /\ visited < Len(ast) /\ ast[visited + 1].type = t
node == ast[visited + 1]

Visited(text) ==
    /\ visited' = visited + 1
    /\ typeDefs' = typeDefs \o text
    /\ UNCHANGED <<pc, error>>

TaggedTemplateExpression ==
    /\ Visiting("TaggedTemplateExpression")
    /\ IF node.tag.name = <<"gql">>
          \/ (node.tag.type = "Identifier" /\ node.tag.name = <<"graphql">>)
       THEN Visited(node.cooked \o <<"\n">>)
       ELSE Visited(<< >>)
    /\ UNCHANGED <<ast, mutationArgs, outputFilePath, output, lowerVars, rewriteVars>>

TSTypeAliasDeclaration ==
    /\ Visiting("TSTypeAliasDeclaration")
    /\ LET id == node.id
           typeAnnotation == node.typeAnnotation
           arguments == generateArgumentsDefinition(typeAnnotation)
           scalars == generateScalarsDefinition(typeAnnotation)
           typeDefinition == generateTypeScriptDefinition(typeAnnotation)
       IN  IF IsMutationArgs(id) /\ arguments.k = "throw"
           THEN Fail("TypeError") /\ UNCHANGED <<visited, typeDefs, mutationArgs>>
           ELSE /\ mutationArgs' = IF IsMutationArgs(id)
                                   THEN Assign(mutationArgs, id, arguments.s)
                                   ELSE mutationArgs
                /\ IF id = <<"Scalars">>
                   THEN IF scalars.k = "throw"
                        THEN Fail("TypeError") /\ UNCHANGED <<visited, typeDefs>>
                        ELSE Visited(scalars.s)
                   ELSE IF typeDefinition.k = "throw"
                        THEN Fail("TypeError") /\ UNCHANGED <<visited, typeDefs>>
                        ELSE IF Len(typeDefinition.s) > 0
                             THEN Visited(<<"type ">> \o id \o <<" ">>
                                          \o typeDefinition.s \o <<"\n">>)
                             ELSE Visited(<< >>)
    /\ UNCHANGED <<ast, outputFilePath, output, lowerVars, rewriteVars>>

TSEnumDeclaration ==
    /\ Visiting("TSEnumDeclaration")
    /\ Visited(<<"enum ">> \o node.id \o <<" {\n">>
               \o Join([i \in 1..Len(node.members) |-> <<toUpperCase(node.members[i])>>],
                       <<", ">>)
               \o <<"\n}\n">>)
    /\ UNCHANGED <<ast, mutationArgs, outputFilePath, output, lowerVars, rewriteVars>>

\* A node no visitor is registered for.
NoVisitor ==
    /\ Visiting("VariableDeclaration")
    /\ Visited(<< >>)
    /\ UNCHANGED <<ast, mutationArgs, outputFilePath, output, lowerVars, rewriteVars>>

\* The run with the check of typeDefs left out.
CheckTypeDefs_NoThrow ==
    /\ pc = "traverse" /\ visited = Len(ast)
    /\ pc' = "parse"
    /\ UNCHANGED <<error, lowerVars, rewriteVars, pipeVars>>

\* if (!typeDefs) throw new Error('No GraphQL type definitions found in the file.')
CheckTypeDefs ==
    /\ pc = "traverse" /\ visited = Len(ast)
    /\ IF Len(typeDefs) = 0
       THEN Fail("No GraphQL type definitions found in the file.")
       ELSE pc' = "parse" /\ UNCHANGED error
    /\ UNCHANGED <<lowerVars, rewriteVars, pipeVars>>

\* parse(typeDefs) throws a GraphQLError on text that is not SDL.
ParseError ==
    /\ pc = "parse"
    /\ Fail("GraphQLError")
    /\ UNCHANGED <<lowerVars, rewriteVars, pipeVars>>

\* const parsedAST = parse(typeDefs); const definitions = [...parsedAST.definitions]
Parse ==
    /\ pc = "parse"
    /\ parsed' \in ParsedDocuments
    /\ definitions' = parsed'
    /\ pc' = "reposition"
    /\ UNCHANGED <<updatedAST, error, lowerVars, pipeVars>>

\* const schemaString = print(updatedAST), in either copy of the callback.
Printed == pc \in {"done", "doneFirst"}

\* fs.writeFile(outputFilePath, schemaString, ...) without writeErr
WriteFile ==
    /\ Printed /\ outputFilePath
    /\ output' = "file"
    /\ pc' = "finished"
    /\ UNCHANGED <<ast, visited, typeDefs, mutationArgs, outputFilePath, error,
                   lowerVars, rewriteVars>>

\* fs.writeFile with writeErr: console.error('Error writing file:', writeErr)
WriteFileError ==
    /\ Printed /\ outputFilePath
    /\ Fail("Error writing file")
    /\ UNCHANGED <<lowerVars, rewriteVars, pipeVars>>

\* console.log(schemaString)
ConsoleLog ==
    /\ Printed /\ ~outputFilePath
    /\ output' = "console"
    /\ pc' = "finished"
    /\ UNCHANGED <<ast, visited, typeDefs, mutationArgs, outputFilePath, error,
                   lowerVars, rewriteVars>>

NextPipe ==
    \/ ReadFileError \/ BabelParseError \/ BabelParse
    \/ TaggedTemplateExpression \/ TSTypeAliasDeclaration \/ TSEnumDeclaration
    \/ NoVisitor \/ CheckTypeDefs
    \/ ParseError \/ Parse
    \/ RepositionQuery \/ BindQuery \/ BindMutation \/ PruneArgs
    \/ RepositionQueryFirst \/ BindMutationFirstCopy \/ BindQueryFirstCopy
    \/ PruneArgsFirst
    \/ WriteFile \/ WriteFileError \/ ConsoleLog

SpecPipe == InitPipe /\ [][NextPipe]_vars

(***************************************************************************)
(* Claims about the run (checked under SpecPipe).                          *)
(***************************************************************************)
NoDefinitionsFound == "No GraphQL type definitions found in the file."

\* The traversal visited every node without raising and collected no text,
\* and the run has moved on.
C10_ExtractedNothing ==
    /\ pc \notin {"readFile", "traverse"}
    /\ error \notin {"Error reading file", "SyntaxError"}
    /\ visited = Len(ast)
    /\ Len(typeDefs) = 0

\* C10: when extraction over the whole source yields empty schema text the
\* run is in the NoDefinitionsFound error and nothing was written or
\* printed; and the schema is written or printed only after extraction,
\* parse and rewrite all completed without error.
C10_NoOutputWithoutDefinitions ==
    /\ C10_ExtractedNothing =>
            (pc = "failed" /\ error = NoDefinitionsFound /\ output = "none")
    /\ output # "none" =>
            /\ error = "none"
            /\ visited = Len(ast) /\ Len(typeDefs) > 0
            /\ Len(parsed) > 0
            /\ Len(updatedAST) = 1

\* C10's case: a source file whose only declarations are zero-member aliases
\* ended in the NoDefinitionsFound error.
C10_Witness ==
    /\ pc = "failed" /\ error = NoDefinitionsFound
    /\ Len(ast) > 0
    /\ \A i \in 1..Len(ast) :
            /\ ast[i].type = "TSTypeAliasDeclaration"
            /\ ast[i].typeAnnotation.type = "TSTypeLiteral"
            /\ Len(ast[i].typeAnnotation.members) = 0

(***************************************************************************)
(* Claims about the extraction of type aliases (checked under SpecPipe).   *)
(***************************************************************************)

\* The first object-shaped part of an intersection; an intersection without
\* one stands for a shape with no members.
C11_ObjectPart(typeAnnotation) ==
    LET ann == FindTypeLiteral(typeAnnotation.types)
    IN  IF ann > 0 THEN typeAnnotation.types[ann] ELSE TypeLiteral(<< >>)

\* The alias about to be visited has an intersection shape.
C11_VisitingIntersection ==
    /\ Visiting("TSTypeAliasDeclaration")
    /\ node.id # <<"Scalars">>
    /\ node.typeAnnotation.type = "TSIntersectionType"

\* What the visit of the alias would add with shape `shape` in place of its
\* own: the argument list to record and the fragment to append.
C11_ArgumentsOf(shape) == generateArgumentsDefinition(shape)
C11_FragmentOf(shape) == generateTypeScriptDefinition(shape)

\* C11: visiting an alias whose shape is an intersection records the same
\* argument list and appends the same type-body fragment as visiting it with
\* the shape replaced by the first object-shaped part of the intersection
\* (nothing at all when there is no such part or it has no members).
C11_IntersectionAsFirstObjectPart ==
    [][C11_VisitingIntersection =>
        LET part == C11_ObjectPart(node.typeAnnotation)
            arguments == C11_ArgumentsOf(part)
            fragment == C11_FragmentOf(part)
        IN  IF fragment.k = "throw" \/ (IsMutationArgs(node.id) /\ arguments.k = "throw")
            THEN pc' = "failed"
            ELSE /\ visited' = visited + 1
                 /\ mutationArgs' = IF IsMutationArgs(node.id)
                                    THEN Assign(mutationArgs, node.id, arguments.s)
                                    ELSE mutationArgs
                 /\ typeDefs' = IF Len(fragment.s) > 0
                                THEN typeDefs \o <<"type ">> \o node.id \o <<" ">>
                                             \o fragment.s \o <<"\n">>
                                ELSE typeDefs]_vars

\* The aliases visited so far, by position in the source file.
C13_VisitedAliases == {i \in 1..visited : ast[i].type = "TSTypeAliasDeclaration"}

\* A name of the form <root><Op>Args.
C13_NamedArgs(id, root) == Len(id) >= 2 /\ id[1] = root /\ id[Len(id)] = "Args"
C13_MutationArgsAliases == {i \in C13_VisitedAliases : C13_NamedArgs(ast[i].id, "Mutation")}
C13_ArgsAliases ==
    C13_MutationArgsAliases
        \cup {i \in C13_VisitedAliases : C13_NamedArgs(ast[i].id, "Query")}

C13_Keys == {e[1] : e \in mutationArgs}

\* Every key holds the argument list lowered from the last visited alias of
\* that name.
C13_ListsRecorded(aliases) ==
    \A i \in aliases :
        (\A j \in aliases : ast[j].id = ast[i].id => j <= i)
            => <<ast[i].id, generateArgumentsDefinition(ast[i].typeAnnotation).s>>
                    \in mutationArgs

\* The schema text the first n nodes give when each alias among them
\* contributes the fragment of its type body.
RECURSIVE C13_Fragments(_)
C13_Fragments(n) ==
    IF n = 0 THEN << >>
    ELSE LET body == generateTypeScriptDefinition(ast[n].typeAnnotation).s
         IN  C13_Fragments(n - 1)
                \o (IF Len(body) > 0
                    THEN <<"type ">> \o ast[n].id \o <<" ">> \o body \o <<"\n">>
                    ELSE << >>)

\* Only *Args aliases have been visited so far.
C13_OnlyArgsAliases == C13_ArgsAliases = 1..visited

=============================================================================
